---------------------------- MODULE Spec2Model ----------------------------
(***************************************************************************)
(* The in-memory inverted index of src/src/index/inverted_index.rs         *)
(* (PostingList, InvertedIndex::add_document, InvertedIndex::rank) behind  *)
(* the two request handlers of src/src/main.rs (index, search), which      *)
(* share one InvertedIndex through Arc<tokio::sync::Mutex<_>>.             *)
(*                                                                         *)
(* Vectors are sequences; a Rust index i (0-based) is element i+1 here.    *)
(* A HashMap is a function whose DOMAIN is its key set.                    *)
(* A request text is represented by the sequence of its whitespace-        *)
(* separated words.                                                        *)
(***************************************************************************)
EXTENDS Integers, Sequences, FiniteSets, TLC

\* ------------------------------------------------------------- bounds
\* Number of index requests the environment sends in one behaviour.
MaxCalls == 3
\* Largest number of words in one request text.
MaxTokens == 2
\* Document ids are 0..MaxDocID.
MaxDocID == 2

\* Largest term frequency and largest recorded length of a hand-built index.
MaxFixtureTf == 2
MaxFixtureLen == 1

\* The handler tasks that may run concurrently on the tokio runtime.
Tasks == {1, 2}
DocIDs == 0..MaxDocID
\* Words a request text (or a query) is made of.
Words == {"rust", "Rust", "extra"}

\* ------------------------------------------------------------- state
VARIABLES
    postings,     \* InvertedIndex.postings : term -> PostingList
    doc_lengths,  \* InvertedIndex.doc_lengths : doc id -> token count
    lock,         \* the tokio Mutex of AppState: 0 when free, else the holder
    pc,           \* where each handler task stands
    local,        \* each task's local variables
    calls,        \* index requests received so far
    pre,          \* history: the index as it was when the task's add_document call began
    indexed,      \* history: the terms passed to add_document calls so far
    passed,       \* history: per document, what the add_document calls made for it were given
    serial        \* history: the index a one-at-a-time run of the calls, in lock order, builds

vars == <<postings, doc_lengths, lock, pc, local, calls, pre, indexed, passed, serial>>

\* ------------------------------------------------------------- values
None == [is_some |-> FALSE]
Some(v) == [is_some |-> TRUE, value |-> v]

Ok(i) == [ok |-> TRUE, at |-> i]
Err(i) == [ok |-> FALSE, at |-> i]

\* PostingList::new
PostingList(doc_ids, term_frequencies, positions) ==
    [doc_ids |-> doc_ids, term_frequencies |-> term_frequencies, positions |-> positions]

\* InvertedIndex::default: both maps empty.
EmptyMap == [x \in {} |-> 0]

\* HashMap::insert
MapInsert(m, k, v) == [x \in (DOMAIN m) \cup {k} |-> IF x = k THEN v ELSE m[x]]

\* Vec::insert(i, v), i 0-based: the elements from i on shift right.
VecInsert(s, i, v) ==
    [k \in 1..(Len(s) + 1) |-> IF k <= i THEN s[k] ELSE IF k = i + 1 THEN v ELSE s[k - 1]]

\* str::to_lowercase on the words of the model.
to_lowercase(w) == IF w = "Rust" THEN "rust" ELSE w

\* The token vector the index handler builds:
\* split_whitespace().enumerate().map(|(pos, term)| (term.to_lowercase(), pos))
Tokenize(text) == [i \in 1..Len(text) |-> <<to_lowercase(text[i]), i - 1>>]

\* The request texts of at most MaxTokens words.
Texts == UNION {[1..n -> Words] : n \in 0..MaxTokens}

\* slice::binary_search on s[lo+1..hi] (Rust's half-open range lo..hi).
RECURSIVE binary_search_in(_, _, _, _)
binary_search_in(s, x, lo, hi) ==
    IF lo >= hi THEN Err(lo)
    ELSE LET mid == lo + ((hi - lo) \div 2)
         IN IF s[mid + 1] = x THEN Ok(mid)
            ELSE IF s[mid + 1] < x THEN binary_search_in(s, x, mid + 1, hi)
            ELSE binary_search_in(s, x, lo, mid)

binary_search(s, x) == binary_search_in(s, x, 0, Len(s))


\* ------------------------------------------------------- add_document
\* One pass of the loop body, as [posting, panicked]: a Vec index or insert out of
\* bounds panics and leaves what the earlier statements of the pass already wrote.
Step(p, panicked) == [posting |-> p, panicked |-> panicked]

\* Variant of posting_hit: the position is pushed, the frequency is not incremented.
posting_hit_no_increment(p, i, pos) ==
    IF i >= Len(p.term_frequencies) \/ i >= Len(p.positions) THEN Step(p, TRUE)
    ELSE Step([p EXCEPT !.positions[i + 1] = Append(@, pos)], FALSE)

\* Variant of posting_hit: the position is put at the front of the list.
posting_hit_prepend(p, i, pos) ==
    IF i >= Len(p.term_frequencies) \/ i >= Len(p.positions) THEN Step(p, TRUE)
    ELSE Step([p EXCEPT !.term_frequencies[i + 1] = @ + 1,
                        !.positions[i + 1] = <<pos>> \o @], FALSE)

\* Variant of posting_hit: the entry of the document starts again from this token.
posting_hit_reset(p, i, pos) ==
    IF i >= Len(p.term_frequencies) \/ i >= Len(p.positions) THEN Step(p, TRUE)
    ELSE Step([p EXCEPT !.term_frequencies[i + 1] = 1, !.positions[i + 1] = <<pos>>], FALSE)

\* Variant of posting_hit: the frequency is incremented, the position is not pushed.
posting_hit_no_push(p, i, pos) ==
    IF i >= Len(p.term_frequencies) THEN Step(p, TRUE)
    ELSE Step([p EXCEPT !.term_frequencies[i + 1] = @ + 1], FALSE)

\* Ok(doc_id_pos): the document is already in the list.
posting_hit(p, i, pos) ==
    IF i >= Len(p.term_frequencies) THEN Step(p, TRUE)
    ELSE LET p1 == [p EXCEPT !.term_frequencies[i + 1] = @ + 1]
         IN IF i >= Len(p.positions) THEN Step(p1, TRUE)
            ELSE Step([p1 EXCEPT !.positions[i + 1] = Append(@, pos)], FALSE)

\* Variant of posting_miss: the document id goes to its sorted place, its frequency
\* and positions to the end of their vectors.
posting_miss_entry_at_end(p, i, doc_id, pos) ==
    Step([p EXCEPT !.doc_ids = VecInsert(@, i, doc_id),
                   !.term_frequencies = Append(@, 1),
                   !.positions = Append(@, <<pos>>)], FALSE)

\* Variant of posting_miss: the document is pushed at the end of the three vectors.
posting_miss_push(p, i, doc_id, pos) ==
    Step([p EXCEPT !.doc_ids = Append(@, doc_id),
                   !.term_frequencies = Append(@, 1),
                   !.positions = Append(@, <<pos>>)], FALSE)

\* Err(insert_pos): the document is new to the list.
posting_miss(p, i, doc_id, pos) ==
    LET p1 == [p EXCEPT !.doc_ids = VecInsert(@, i, doc_id)]
    IN IF i > Len(p.term_frequencies) THEN Step(p1, TRUE)
       ELSE LET p2 == [p1 EXCEPT !.term_frequencies = VecInsert(@, i, 1)]
            IN IF i > Len(p.positions) THEN Step(p2, TRUE)
               ELSE Step([p2 EXCEPT !.positions = VecInsert(@, i, <<pos>>)], FALSE)

\* The posting list of a term seen for the first time.
posting_new(doc_id, pos) == PostingList(<<doc_id>>, <<1>>, <<<<pos>>>>)

\* The loop body for one (token, pos) on the postings map ps.
add_token(ps, doc_id, token, pos) ==
    IF token \notin DOMAIN ps
    THEN [postings |-> MapInsert(ps, token, posting_new(doc_id, pos)), panicked |-> FALSE]
    ELSE LET doc_id_pos == binary_search(ps[token].doc_ids, doc_id)
             r == IF doc_id_pos.ok
                  THEN posting_hit(ps[token], doc_id_pos.at, pos)
                  ELSE posting_miss(ps[token], doc_id_pos.at, doc_id, pos)
         IN [postings |-> [ps EXCEPT ![token] = r.posting], panicked |-> r.panicked]

\* Variant of insert_length: an empty document is not recorded.
insert_length_skip_empty(dl, doc_id, tokens) ==
    IF tokens = <<>> THEN dl ELSE MapInsert(dl, doc_id, Len(tokens))

\* Variant of insert_length: the new count is added to the recorded one.
insert_length_accumulate(dl, doc_id, tokens) ==
    MapInsert(dl, doc_id, (IF doc_id \in DOMAIN dl THEN dl[doc_id] ELSE 0) + Len(tokens))

\* doc_lengths after the first two statements of add_document.
insert_length(dl, doc_id, tokens) == MapInsert(dl, doc_id, Len(tokens))

\* ------------------------------------------------------------- rank
\* Variant of idf_of: the quotient is taken the other way round (n_t / n).
idf_of_inverted(n, n_t) ==
    IF n = 0 THEN (IF n_t = 0 THEN "NaN" ELSE "+inf")
    ELSE IF n_t = 0 THEN "-inf"
    ELSE IF n_t > n THEN "pos"
    ELSE IF n_t = n THEN "zero"
    ELSE "neg"

\* idf = (n / n_t).log(10.0) in f64, kept as the class of its value: the sign of
\* log10 is the order of n and n_t, and 0/0, x/0 and 0/x give NaN, +inf and -inf.
idf_of(n, n_t) ==
    IF n_t = 0 THEN (IF n = 0 THEN "NaN" ELSE "+inf")
    ELSE IF n = 0 THEN "-inf"
    ELSE IF n > n_t THEN "pos"
    ELSE IF n = n_t THEN "zero"
    ELSE "neg"

\* f64::partial_cmp of the scores x = (x.tf / x.len) * idf and y = (y.tf / y.len) * idf
\* of two documents of one rank call (same idf). The quotients are compared by cross
\* multiplication: f64 rounding keeps the order of quotients of counts below 2^26.
partial_cmp(x, y, idf) ==
    LET d == (x.tf * y.len) - (y.tf * x.len)
        ord(v) == IF v < 0 THEN "Less" ELSE IF v = 0 THEN "Equal" ELSE "Greater"
    IN IF idf = "NaN" THEN None
       ELSE IF idf \in {"+inf", "-inf"}
            THEN (IF x.tf = 0 \/ y.tf = 0 THEN None ELSE Some("Equal"))
       ELSE IF idf = "pos" THEN Some(ord(d))
       ELSE IF idf = "neg" THEN Some(ord(-d))
       ELSE Some("Equal")

\* Variant of compare: the operands are swapped (a.1.partial_cmp(&b.1)).
compare_ascending(a, b, idf) ==
    LET c == partial_cmp(a, b, idf) IN IF c.is_some THEN c.value ELSE "Equal"

\* The closure of sort_by: b.1.partial_cmp(&a.1).unwrap_or(Ordering::Equal)
compare(a, b, idf) ==
    LET c == partial_cmp(b, a, idf) IN IF c.is_some THEN c.value ELSE "Equal"

\* Variant of insert_tail: an element also moves left past the elements it compares
\* Equal to (a sort that is not stable).
RECURSIVE insert_tail_unstable(_, _, _)
insert_tail_unstable(sorted, x, idf) ==
    IF sorted = <<>> THEN <<x>>
    ELSE IF compare(x, sorted[Len(sorted)], idf) # "Greater"
         THEN Append(insert_tail_unstable(SubSeq(sorted, 1, Len(sorted) - 1), x, idf),
                     sorted[Len(sorted)])
         ELSE Append(sorted, x)

\* slice::sort_by is stable; on short slices it is an insertion sort: each element
\* moves left past the elements it compares Less than.
RECURSIVE insert_tail(_, _, _)
insert_tail(sorted, x, idf) ==
    IF sorted = <<>> THEN <<x>>
    ELSE IF compare(x, sorted[Len(sorted)], idf) = "Less"
         THEN Append(insert_tail(SubSeq(sorted, 1, Len(sorted) - 1), x, idf), sorted[Len(sorted)])
         ELSE Append(sorted, x)

RECURSIVE sort_by(_, _)
sort_by(v, idf) ==
    IF v = <<>> THEN <<>>
    ELSE insert_tail(sort_by(SubSeq(v, 1, Len(v) - 1), idf), v[Len(v)], idf)

\* Variant of filter_map: a document recorded with length 0 is kept.
RECURSIVE filter_map_keep_zero(_, _, _)
filter_map_keep_zero(posting, dl, k) ==
    IF k = 0 THEN <<>>
    ELSE LET rest == filter_map_keep_zero(posting, dl, k - 1)
             doc_id == posting.doc_ids[k]
         IN IF doc_id \notin DOMAIN dl THEN rest
            ELSE Append(rest, [doc_id |-> doc_id,
                               tf |-> posting.term_frequencies[k],
                               len |-> dl[doc_id]])

\* doc_ids.iter().zip(term_frequencies.iter()).filter_map(..).collect():
\* the documents with a recorded, non-zero length, in posting order.
RECURSIVE filter_map(_, _, _)
filter_map(posting, dl, k) ==
    IF k = 0 THEN <<>>
    ELSE LET rest == filter_map(posting, dl, k - 1)
             doc_id == posting.doc_ids[k]
         IN IF doc_id \notin DOMAIN dl THEN rest
            ELSE IF dl[doc_id] = 0 THEN rest
            ELSE Append(rest, [doc_id |-> doc_id,
                               tf |-> posting.term_frequencies[k],
                               len |-> dl[doc_id]])

Min(a, b) == IF a <= b THEN a ELSE b

\* Variant of rank: an unknown term gives the empty sequence.
rank_unknown_is_empty(ps, dl, q) ==
    IF q \notin DOMAIN ps THEN Some(<<>>)
    ELSE LET posting == ps[q]
             idf == idf_of(Cardinality(DOMAIN dl), Len(posting.doc_ids))
             zipped == Min(Len(posting.doc_ids), Len(posting.term_frequencies))
             doc_tf_idf == sort_by(filter_map(posting, dl, zipped), idf)
         IN Some([i \in 1..Len(doc_tf_idf) |-> doc_tf_idf[i].doc_id])

\* InvertedIndex::rank on the index (ps, dl).
rank(ps, dl, q) ==
    IF q \notin DOMAIN ps THEN None
    ELSE LET posting == ps[q]
             n == Cardinality(DOMAIN dl)
             n_t == Len(posting.doc_ids)
             idf == idf_of(n, n_t)
             zipped == Min(Len(posting.doc_ids), Len(posting.term_frequencies))
             doc_tf_idf == sort_by(filter_map(posting, dl, zipped), idf)
         IN Some([i \in 1..Len(doc_tf_idf) |-> doc_tf_idf[i].doc_id])

\* add_document as one uninterrupted call on the index (ps, dl): the loop over the
\* first k tokens, then the whole call.
RECURSIVE for_tokens(_, _, _, _)
for_tokens(ps, doc_id, tokens, k) ==
    IF k = 0 THEN ps
    ELSE add_token(for_tokens(ps, doc_id, tokens, k - 1), doc_id, tokens[k][1], tokens[k][2]).postings

add_document(ix, doc_id, tokens) ==
    [postings |-> for_tokens(ix.postings, doc_id, tokens, Len(tokens)),
     doc_lengths |-> insert_length(ix.doc_lengths, doc_id, tokens)]

\* ------------------------------------------------------------- handlers
\* A task with no request in hand.
NoLocal == [doc_id |-> 0, tokens |-> <<>>, next |-> 0, query |-> "", ranked |-> None]
NoIndex == [postings |-> EmptyMap, doc_lengths |-> EmptyMap]
Index == [postings |-> postings, doc_lengths |-> doc_lengths]
TermsOf(tokens) == {tokens[i][1] : i \in 1..Len(tokens)}

\* The terms a request text can give.
Terms == {to_lowercase(w) : w \in Words}

\* The positions of the tokens of one call that carry the term, in token order.
RECURSIVE PositionsIn(_, _)
PositionsIn(tokens, term) ==
    IF tokens = <<>> THEN <<>>
    ELSE LET rest == PositionsIn(SubSeq(tokens, 1, Len(tokens) - 1), term)
             last == tokens[Len(tokens)]
         IN IF last[1] = term THEN Append(rest, last[2]) ELSE rest

\* What the calls made for one document were given: how many calls, how many tokens
\* in all, and per term the positions in call order, then token order.
NoneGiven ==
    [d \in DocIDs |-> [calls |-> 0, tokens |-> 0, positions |-> [term \in Terms |-> <<>>]]]
Given(g, tokens) ==
    [calls |-> g.calls + 1,
     tokens |-> g.tokens + Len(tokens),
     positions |-> [term \in Terms |-> g.positions[term] \o PositionsIn(tokens, term)]]

Init ==
    /\ postings = EmptyMap
    /\ doc_lengths = EmptyMap
    /\ lock = 0
    /\ pc = [t \in Tasks |-> "idle"]
    /\ local = [t \in Tasks |-> NoLocal]
    /\ calls = 0
    /\ pre = [t \in Tasks |-> NoIndex]
    /\ indexed = {}
    /\ passed = NoneGiven
    /\ serial = NoIndex

\* Variant of lock_free: the handlers do not wait for the guard of another task.
lock_not_awaited == TRUE

\* Mutex::lock().await completes only when no guard is alive.
lock_free == lock = 0

\* POST /index/: the handler tokenizes the text, then waits for the lock.
index(t) ==
    /\ pc[t] = "idle"
    /\ calls < MaxCalls
    /\ \E doc_id \in DocIDs, text \in Texts :
          local' = [local EXCEPT ![t] = [NoLocal EXCEPT !.doc_id = doc_id,
                                                        !.tokens = Tokenize(text)]]
    /\ pc' = [pc EXCEPT ![t] = "index_lock"]
    /\ calls' = calls + 1
    /\ UNCHANGED <<postings, doc_lengths, lock, pre, indexed, passed, serial>>

\* let mut idx = state.index.lock().await;
index_lock(t) ==
    /\ pc[t] = "index_lock"
    /\ lock_free
    /\ lock' = t
    /\ pc' = [pc EXCEPT ![t] = "add_document"]
    /\ serial' = add_document(serial, local[t].doc_id, local[t].tokens)
    /\ UNCHANGED <<postings, doc_lengths, local, calls, pre, indexed, passed>>

\* add_document, up to the loop: the length is recorded.
add_document_length(t) ==
    /\ pc[t] = "add_document"
    /\ doc_lengths' = insert_length(doc_lengths, local[t].doc_id, local[t].tokens)
    /\ local' = [local EXCEPT ![t].next = 1]
    /\ pc' = [pc EXCEPT ![t] = "for_tokens"]
    /\ pre' = [pre EXCEPT ![t] = Index]
    /\ indexed' = indexed \cup TermsOf(local[t].tokens)
    /\ passed' = [passed EXCEPT ![local[t].doc_id] = Given(@, local[t].tokens)]
    /\ UNCHANGED <<postings, lock, calls, serial>>

\* One pass of the loop. A panic unwinds the handler: its guard is dropped.
add_document_token(t) ==
    /\ pc[t] = "for_tokens"
    /\ local[t].next <= Len(local[t].tokens)
    /\ LET tok == local[t].tokens[local[t].next]
           r == add_token(postings, local[t].doc_id, tok[1], tok[2])
       IN /\ postings' = r.postings
          /\ pc' = [pc EXCEPT ![t] = IF r.panicked THEN "panicked" ELSE "for_tokens"]
          /\ lock' = IF r.panicked /\ lock = t THEN 0 ELSE lock
    /\ local' = [local EXCEPT ![t].next = @ + 1]
    /\ UNCHANGED <<doc_lengths, calls, pre, indexed, passed, serial>>

\* The loop is over: add_document returns to the handler.
add_document_return(t) ==
    /\ pc[t] = "for_tokens"
    /\ local[t].next > Len(local[t].tokens)
    /\ pc' = [pc EXCEPT ![t] = "index_unlock"]
    /\ UNCHANGED <<postings, doc_lengths, lock, local, calls, pre, indexed, passed, serial>>

\* The guard goes out of scope and the handler answers.
index_unlock(t) ==
    /\ pc[t] = "index_unlock"
    /\ lock' = IF lock = t THEN 0 ELSE lock
    /\ pc' = [pc EXCEPT ![t] = "idle"]
    /\ local' = [local EXCEPT ![t] = NoLocal]
    /\ pre' = [pre EXCEPT ![t] = NoIndex]
    /\ UNCHANGED <<postings, doc_lengths, calls, indexed, passed, serial>>

\* POST /search/: the query is used as it is sent.
search(t) ==
    /\ pc[t] = "idle"
    /\ \E query \in Words : local' = [local EXCEPT ![t] = [NoLocal EXCEPT !.query = query]]
    /\ pc' = [pc EXCEPT ![t] = "search_lock"]
    /\ UNCHANGED <<postings, doc_lengths, lock, calls, pre, indexed, passed, serial>>

\* let idx = state.index.lock().await;
search_lock(t) ==
    /\ pc[t] = "search_lock"
    /\ lock_free
    /\ lock' = t
    /\ pc' = [pc EXCEPT ![t] = "rank"]
    /\ UNCHANGED <<postings, doc_lengths, local, calls, pre, indexed, passed, serial>>

\* Variant of search_rank: a lookup that misses leaves an empty posting list behind
\* (postings.entry(q).or_default() after the miss).
search_rank_entry(t) ==
    /\ pc[t] = "rank"
    /\ local' = [local EXCEPT ![t].ranked = rank(postings, doc_lengths, local[t].query)]
    /\ postings' = IF local[t].query \in DOMAIN postings THEN postings
                   ELSE MapInsert(postings, local[t].query, PostingList(<<>>, <<>>, <<>>))
    /\ pc' = [pc EXCEPT ![t] = "search_unlock"]
    /\ UNCHANGED <<doc_lengths, lock, calls, pre, indexed, passed, serial>>

\* idx.rank(&req.query): rank takes &self and writes nothing.
search_rank(t) ==
    /\ pc[t] = "rank"
    /\ local' = [local EXCEPT ![t].ranked = rank(postings, doc_lengths, local[t].query)]
    /\ pc' = [pc EXCEPT ![t] = "search_unlock"]
    /\ UNCHANGED <<postings, doc_lengths, lock, calls, pre, indexed, passed, serial>>

\* .unwrap_or_default(), the guard goes out of scope and the handler answers.
search_unlock(t) ==
    /\ pc[t] = "search_unlock"
    /\ lock' = IF lock = t THEN 0 ELSE lock
    /\ pc' = [pc EXCEPT ![t] = "idle"]
    /\ local' = [local EXCEPT ![t] = NoLocal]
    /\ UNCHANGED <<postings, doc_lengths, calls, pre, indexed, passed, serial>>

Next ==
    \E t \in Tasks :
        \/ index(t)
        \/ index_lock(t)
        \/ add_document_length(t)
        \/ add_document_token(t)
        \/ add_document_return(t)
        \/ index_unlock(t)
        \/ search(t)
        \/ search_lock(t)
        \/ search_rank(t)
        \/ search_unlock(t)

Spec == Init /\ [][Next]_vars

\* ------------------------------------------------------------- fixtures
\* An index built by hand with InvertedIndex::new(postings, doc_lengths), as the test
\* rank_skips_docs_without_length_info does: one term whose posting list keeps the
\* invariants of the data model, and any doc_lengths map, which may lack documents of
\* the list or record them with length 0.
RECURSIVE ascending(_, _)
ascending(S, k) ==
    IF S = {} THEN <<>>
    ELSE IF k \in S THEN <<k>> \o ascending(S \ {k}, k + 1)
    ELSE ascending(S, k + 1)

FixturePostingLists ==
    UNION {{PostingList(ascending(D, 0),
                        [i \in 1..Cardinality(D) |-> tfs[i]],
                        [i \in 1..Cardinality(D) |-> [j \in 1..tfs[i] |-> j - 1]])
              : tfs \in [1..Cardinality(D) -> 1..MaxFixtureTf]}
           : D \in SUBSET DocIDs}

FixtureDocLengths == UNION {[D -> 0..MaxFixtureLen] : D \in SUBSET DocIDs}

FixtureInit ==
    /\ \E posting \in FixturePostingLists : postings = MapInsert(EmptyMap, "rust", posting)
    /\ doc_lengths \in FixtureDocLengths
    /\ lock = 0
    /\ pc = [t \in Tasks |-> "idle"]
    /\ local = [t \in Tasks |-> NoLocal]
    /\ calls = MaxCalls
    /\ pre = [t \in Tasks |-> NoIndex]
    /\ indexed = {}
    /\ passed = NoneGiven
    /\ serial = Index

\* Queries on a hand-built index.
FixtureNext ==
    \E t \in Tasks :
        \/ search(t)
        \/ search_lock(t)
        \/ search_rank(t)
        \/ search_unlock(t)

FixtureSpec == FixtureInit /\ [][FixtureNext]_vars

\* ------------------------------------------------------------- properties
\* What a posting list says about one document.
HasDoc(ps, term, d) ==
    term \in DOMAIN ps /\ \E i \in 1..Len(ps[term].doc_ids) : ps[term].doc_ids[i] = d
SlotOf(ps, term, d) == CHOOSE i \in 1..Len(ps[term].doc_ids) : ps[term].doc_ids[i] = d
TfOf(ps, term, d) == ps[term].term_frequencies[SlotOf(ps, term, d)]
PositionsOf(ps, term, d) == ps[term].positions[SlotOf(ps, term, d)]

\* C1: in every state, between calls and after every token step inside a call, the
\* doc_ids of every posting list are strictly increasing.
C1_DocIdsStrictlyIncreasing ==
    \A term \in DOMAIN postings :
        \A i, j \in 1..Len(postings[term].doc_ids) :
            i < j => postings[term].doc_ids[i] < postings[term].doc_ids[j]

\* C1 happens: inside a call for document 1, the first token step has just put the
\* document between documents 0 and 2 of a list that held <<0, 2>> when the call began.
C1_Witness ==
    \E t \in Tasks :
        /\ pc[t] = "for_tokens"
        /\ local[t].doc_id = 1
        /\ local[t].next = 2
        /\ "rust" \in DOMAIN pre[t].postings
        /\ pre[t].postings["rust"].doc_ids = <<0, 2>>
        /\ postings["rust"].doc_ids = <<0, 1, 2>>

\* C2: the three vectors of every posting list have the same length, and every term
\* frequency is the length of the position list beside it.
C2_ParallelVectorsAligned ==
    \A term \in DOMAIN postings :
        LET p == postings[term]
        IN /\ Len(p.doc_ids) = Len(p.term_frequencies)
           /\ Len(p.doc_ids) = Len(p.positions)
           /\ \A i \in 1..Len(p.doc_ids) : p.term_frequencies[i] = Len(p.positions[i])

\* C2 happens: a call has returned and left a list of two documents, one of them with
\* two occurrences of the term.
C2_Witness ==
    \E t \in Tasks :
        /\ pc[t] = "index_unlock"
        /\ "rust" \in DOMAIN postings
        /\ postings["rust"].doc_ids = <<0, 2>>
        /\ postings["rust"].term_frequencies = <<1, 2>>
        /\ postings["rust"].positions = <<<<1>>, <<0, 1>>>>

\* C3: when a call for a document that already has a recorded length returns, the
\* recorded length is the token count of this call alone, and for every term of the
\* call that the document already had, the frequency is the old one plus the new
\* occurrences and the positions are the old ones followed by the new ones.
C3_ReingestOverwritesLengthExtendsPostings ==
    \A t \in Tasks :
        (pc[t] = "index_unlock" /\ local[t].doc_id \in DOMAIN pre[t].doc_lengths) =>
            LET d == local[t].doc_id
                tokens == local[t].tokens
            IN /\ d \in DOMAIN doc_lengths
               /\ doc_lengths[d] = Len(tokens)
               /\ \A term \in TermsOf(tokens) :
                     HasDoc(pre[t].postings, term, d) =>
                        /\ HasDoc(postings, term, d)
                        /\ TfOf(postings, term, d) =
                              TfOf(pre[t].postings, term, d) + Len(PositionsIn(tokens, term))
                        /\ PositionsOf(postings, term, d) =
                              PositionsOf(pre[t].postings, term, d) \o PositionsIn(tokens, term)

\* C3 happens: document 1 was ingested with two tokens "rust", then again with one:
\* its length is 1, its frequency 3 and its positions <<0, 1, 0>>.
C3_Witness ==
    \E t \in Tasks :
        /\ pc[t] = "index_unlock"
        /\ local[t].doc_id = 1
        /\ local[t].tokens = <<<<"rust", 0>>>>
        /\ 1 \in DOMAIN pre[t].doc_lengths
        /\ pre[t].doc_lengths[1] = 2
        /\ doc_lengths[1] = 1
        /\ HasDoc(postings, "rust", 1)
        /\ TfOf(postings, "rust", 1) = 3
        /\ PositionsOf(postings, "rust", 1) = <<0, 1, 0>>

\* A task whose rank call has returned and whose guard is still alive.
Ranked(t) == pc[t] = "search_unlock"

\* C4: on an index built by add_document calls, rank returns None exactly for the
\* queries that were the term of no token passed so far, and a present sequence for
\* every term that was.
C4_NoneIffNeverIngested ==
    \A t \in Tasks :
        Ranked(t) => (local[t].ranked = None <=> local[t].query \notin indexed)

\* C4 happens: "rust" was ingested, "extra" was not, and rank("extra") returned None.
C4_Witness ==
    \E t \in Tasks :
        /\ Ranked(t)
        /\ local[t].query = "extra"
        /\ indexed = {"rust"}
        /\ local[t].ranked = None

\* The documents of a posting list that rank can score.
Scorable(ps, dl, term) ==
    {ps[term].doc_ids[i] : i \in 1..Len(ps[term].doc_ids)}
        \cap {d \in DOMAIN dl : dl[d] # 0}

\* C5: for a term with a posting list, rank returns a present sequence that holds
\* exactly the documents of the list with a recorded non-zero length, each once; it is
\* the present empty sequence when every document's length is missing or zero.
C5_ResultIsScorableDocuments ==
    \A t \in Tasks :
        (Ranked(t) /\ local[t].query \in DOMAIN postings) =>
            /\ local[t].ranked.is_some
            /\ LET res == local[t].ranked.value
               IN /\ {res[i] : i \in 1..Len(res)} = Scorable(postings, doc_lengths, local[t].query)
                  /\ Len(res) = Cardinality(Scorable(postings, doc_lengths, local[t].query))

\* C5 happens: the list holds documents 0 and 1, document 0 has no recorded length,
\* document 1 is recorded with length 0, and rank returned the present empty sequence.
C5_Witness ==
    \E t \in Tasks :
        /\ Ranked(t)
        /\ local[t].query = "rust"
        /\ "rust" \in DOMAIN postings
        /\ postings["rust"].doc_ids = <<0, 1>>
        /\ 0 \notin DOMAIN doc_lengths
        /\ 1 \in DOMAIN doc_lengths
        /\ doc_lengths[1] = 0
        /\ local[t].ranked = Some(<<>>)

\* The class of log10(N / N_t) for a term of the index.
IdfOf(term) == idf_of(Cardinality(DOMAIN doc_lengths), Len(postings[term].doc_ids))

\* C6: the sequence rank returns is in descending score order, score(d) =
\* (tf(d) / len(d)) * log10(N / N_t): when N > N_t (idf > 0), for i < j,
\* tf(res[i]) * len(res[j]) >= tf(res[j]) * len(res[i]); when N < N_t (idf < 0) the
\* quotients ascend; when N = N_t every score is 0.
C6_DescendingScore ==
    \A t \in Tasks :
        (Ranked(t) /\ local[t].ranked.is_some) =>
            LET term == local[t].query
                res == local[t].ranked.value
                tf(d) == TfOf(postings, term, d)
                len(d) == doc_lengths[d]
            IN \A i, j \in 1..Len(res) :
                  i < j =>
                     /\ IdfOf(term) = "pos" =>
                           tf(res[i]) * len(res[j]) >= tf(res[j]) * len(res[i])
                     /\ IdfOf(term) = "neg" =>
                           tf(res[i]) * len(res[j]) <= tf(res[j]) * len(res[i])
                     /\ IdfOf(term) \in {"pos", "zero", "neg"}

\* C6 happens: document 0 has "rust" once in two tokens, document 1 once in one,
\* document 2 has no "rust" (N = 3 > N_t = 2), and rank("rust") returned <<1, 0>>.
C6_Witness ==
    \E t \in Tasks :
        /\ Ranked(t)
        /\ local[t].query = "rust"
        /\ DOMAIN doc_lengths = {0, 1, 2}
        /\ "rust" \in DOMAIN postings
        /\ postings["rust"].doc_ids = <<0, 1>>
        /\ postings["rust"].term_frequencies = <<1, 1>>
        /\ doc_lengths[0] = 2
        /\ doc_lengths[1] = 1
        /\ local[t].ranked = Some(<<1, 0>>)

\* C7: the step in which rank runs leaves postings and doc_lengths as they were, for
\* known and unknown queries alike, and calling rank again on the index it returned
\* from gives the result it gave.
C7_RankLeavesIndexUnchanged ==
    /\ [][\A t \in Tasks :
             (pc[t] = "rank" /\ pc'[t] = "search_unlock") =>
                 (postings' = postings /\ doc_lengths' = doc_lengths)]_vars
    /\ [](\A t \in Tasks :
             Ranked(t) => local[t].ranked = rank(postings, doc_lengths, local[t].query))

\* C7 happens: rank has returned a non-empty result for a known term on an index of
\* two terms.
C7_Witness ==
    \E t \in Tasks :
        /\ Ranked(t)
        /\ local[t].ranked.is_some
        /\ local[t].ranked.value # <<>>
        /\ DOMAIN postings = {"rust", "extra"}

\* C8: no add_document call ends in a panic; a call with an empty token sequence for
\* document d records length 0 for d and returns with the postings map it started
\* with: no term created, no list changed, d still in the lists it was in.
C8_EmptyDocumentAccepted ==
    \A t \in Tasks :
        /\ pc[t] # "panicked"
        /\ (pc[t] = "index_unlock" /\ local[t].tokens = <<>>) =>
              /\ local[t].doc_id \in DOMAIN doc_lengths
              /\ doc_lengths[local[t].doc_id] = 0
              /\ postings = pre[t].postings

\* C8 happens: document 1, ingested before with "rust" and a length of 2, has been
\* ingested again with no token: its length is 0 and it is still in the list of "rust".
C8_Witness ==
    \E t \in Tasks :
        /\ pc[t] = "index_unlock"
        /\ local[t].tokens = <<>>
        /\ local[t].doc_id = 1
        /\ 1 \in DOMAIN pre[t].doc_lengths
        /\ pre[t].doc_lengths[1] = 2
        /\ doc_lengths[1] = 0
        /\ HasDoc(postings, "rust", 1)

\* The positions at which a task holds the guard of the mutex.
Guarded == {"add_document", "for_tokens", "index_unlock", "rank", "search_unlock"}

\* C9: a task between lock and unlock is the one holder of the lock, so no other task
\* is inside add_document or rank at the same time; inside a call the postings are
\* those the call started with plus its own first tokens, nothing of another call;
\* whenever no call is in progress, and so whenever rank runs, the index is the one
\* the calls made so far build when run one at a time in the order they took the lock.
C9_SerializedByOneLock ==
    /\ \A t \in Tasks : pc[t] \in Guarded => lock = t
    /\ \A t \in Tasks :
          pc[t] = "for_tokens" =>
              /\ postings = for_tokens(pre[t].postings, local[t].doc_id,
                                       local[t].tokens, local[t].next - 1)
              /\ doc_lengths = insert_length(pre[t].doc_lengths, local[t].doc_id,
                                             local[t].tokens)
    /\ (\A t \in Tasks : pc[t] \notin {"add_document", "for_tokens"}) => Index = serial

\* C9 happens: one task is inside add_document with one of its two tokens applied
\* while the other task, with a search request in hand, waits for the lock.
C9_Witness ==
    \E t, u \in Tasks :
        /\ t # u
        /\ pc[t] = "for_tokens"
        /\ Len(local[t].tokens) = 2
        /\ local[t].next = 2
        /\ pc[u] = "search_lock"
        /\ lock = t

\* The document ids of a posting list.
DocsOf(ps, term) == {ps[term].doc_ids[i] : i \in 1..Len(ps[term].doc_ids)}
IsPrefix(s, r) == Len(s) <= Len(r) /\ SubSeq(r, 1, Len(s)) = s

\* C10: no step removes a term from postings, a document from a posting list or from
\* doc_lengths, lowers a term frequency, or changes a position list other than by
\* appending to it.
C10_PurelyAdditive ==
    [][/\ DOMAIN postings \subseteq DOMAIN postings'
       /\ DOMAIN doc_lengths \subseteq DOMAIN doc_lengths'
       /\ \A term \in DOMAIN postings :
             /\ DocsOf(postings, term) \subseteq DocsOf(postings', term)
             /\ \A d \in DocsOf(postings, term) :
                   /\ TfOf(postings', term, d) >= TfOf(postings, term, d)
                   /\ IsPrefix(PositionsOf(postings, term, d), PositionsOf(postings', term, d))
      ]_vars

\* C10 happens: after add_document and rank calls the index holds two terms and two
\* documents, one of them with a term frequency of 3 reached over two calls.
C10_Witness ==
    \E t \in Tasks :
        /\ Ranked(t)
        /\ DOMAIN postings = {"rust", "extra"}
        /\ DOMAIN doc_lengths = {0, 1}
        /\ \E d \in DocsOf(postings, "rust") : TfOf(postings, "rust", d) = 3

\* Some task is inside the loop of add_document.
InCall == \E t \in Tasks : pc[t] = "for_tokens"

\* C11: whenever no call is in progress, a document is in the posting list of a term
\* exactly if some call for it was given a token of that term; its positions are then
\* the positions of all those tokens, in call order and token order within a call,
\* and its term frequency is their number.
C11_PositionsAreTokensInOrder ==
    ~InCall =>
        \A d \in DocIDs, term \in Terms :
            IF passed[d].positions[term] = <<>>
            THEN ~HasDoc(postings, term, d)
            ELSE /\ HasDoc(postings, term, d)
                 /\ PositionsOf(postings, term, d) = passed[d].positions[term]
                 /\ TfOf(postings, term, d) = Len(passed[d].positions[term])

\* C11 happens: document 0 was ingested as "extra rust" and then as "rust": the
\* positions of "rust" are <<1, 0>>, those of "extra" <<0>>.
C11_Witness ==
    \E t \in Tasks :
        /\ pc[t] = "index_unlock"
        /\ passed[0].calls = 2
        /\ HasDoc(postings, "rust", 0)
        /\ PositionsOf(postings, "rust", 0) = <<1, 0>>
        /\ HasDoc(postings, "extra", 0)
        /\ PositionsOf(postings, "extra", 0) = <<0>>

\* C12: when add_document(d, tokens) returns, compared with the index the call began
\* with: every other document has the recorded length it had and no other document
\* gained one; in every posting list every other document has the frequency and the
\* positions it had, also where d was inserted before it, and no other document
\* joined a list; the lists of the terms that are not in tokens are as they were, and
\* the only new terms are terms of tokens.
C12_OtherDocumentsAndTermsUntouched ==
    \A t \in Tasks :
        pc[t] = "index_unlock" =>
            LET d == local[t].doc_id
                was == pre[t]
                terms == TermsOf(local[t].tokens)
            IN /\ DOMAIN doc_lengths = DOMAIN was.doc_lengths \cup {d}
               /\ \A e \in DOMAIN was.doc_lengths \ {d} : doc_lengths[e] = was.doc_lengths[e]
               /\ DOMAIN postings = DOMAIN was.postings \cup terms
               /\ \A term \in DOMAIN was.postings :
                     /\ term \notin terms => postings[term] = was.postings[term]
                     /\ DocsOf(postings, term) \ {d} = DocsOf(was.postings, term) \ {d}
                     /\ \A e \in DocsOf(was.postings, term) \ {d} :
                           /\ TfOf(postings, term, e) = TfOf(was.postings, term, e)
                           /\ PositionsOf(postings, term, e) = PositionsOf(was.postings, term, e)

\* C12 happens: a call for document 1 with "rust" returns; document 2, which has
\* "rust" twice, was first in the list and is now second, with the entry it had, and
\* the list of "extra" is the one the call began with.
C12_Witness ==
    \E t \in Tasks :
        /\ pc[t] = "index_unlock"
        /\ local[t].doc_id = 1
        /\ local[t].tokens = <<<<"rust", 0>>>>
        /\ DOMAIN pre[t].postings = {"rust", "extra"}
        /\ pre[t].postings["rust"].doc_ids = <<2>>
        /\ postings["rust"].doc_ids = <<1, 2>>
        /\ postings["rust"].term_frequencies = <<1, 2>>
        /\ postings["rust"].positions = <<<<0>>, <<0, 1>>>>

\* C13: on an index built by add_document calls, in every state every posting list is
\* non-empty, every term frequency is at least 1 and every document of a list has a
\* recorded length; so when rank runs on a known term, 1 <= N_t <= N, idf is zero or
\* positive (not negative, infinite or NaN), every scored document has a non-zero
\* length, and any two scores compare as ordered.
C13_IngestionKeepsIdfDefined ==
    /\ \A term \in DOMAIN postings :
          /\ postings[term].doc_ids # <<>>
          /\ \A i \in 1..Len(postings[term].term_frequencies) :
                postings[term].term_frequencies[i] >= 1
          /\ DocsOf(postings, term) \subseteq DOMAIN doc_lengths
    /\ \A t \in Tasks :
          (pc[t] \in {"rank", "search_unlock"} /\ local[t].query \in DOMAIN postings) =>
              LET posting == postings[local[t].query]
                  n == Cardinality(DOMAIN doc_lengths)
                  n_t == Len(posting.doc_ids)
                  scored == filter_map(posting, doc_lengths, n_t)
              IN /\ 1 <= n_t
                 /\ n_t <= n
                 /\ idf_of(n, n_t) \in {"pos", "zero"}
                 /\ \A i, j \in 1..Len(scored) :
                       /\ scored[i].len # 0
                       /\ partial_cmp(scored[i], scored[j], idf_of(n, n_t)).is_some

\* C13 happens: rank is about to run for "rust" on an index of three documents, one
\* of which has "rust" (N = 3, N_t = 1).
C13_Witness ==
    \E t \in Tasks :
        /\ pc[t] = "rank"
        /\ local[t].query = "rust"
        /\ "rust" \in DOMAIN postings
        /\ Cardinality(DOMAIN doc_lengths) = 3
        /\ Len(postings["rust"].doc_ids) = 1

\* C14: in the sequence rank returns, two documents whose scores are equal (idf is
\* zero, or their quotients tf / len are equal) stand in ascending document id order;
\* so when N = N_t the whole result is the scorable documents in ascending id order,
\* whatever their term frequencies.
C14_TiesInAscendingDocId ==
    \A t \in Tasks :
        (Ranked(t) /\ local[t].ranked.is_some) =>
            LET term == local[t].query
                res == local[t].ranked.value
                tf(d) == TfOf(postings, term, d)
                len(d) == doc_lengths[d]
            IN \A i, j \in 1..Len(res) :
                  (/\ i < j
                   /\ \/ IdfOf(term) = "zero"
                      \/ tf(res[i]) * len(res[j]) = tf(res[j]) * len(res[i]))
                      => res[i] < res[j]

\* C14 happens: documents 0 and 1 are the only documents and both have "rust"
\* (N = N_t = 2); document 1 has the larger quotient (2/2 against 1/2) and rank
\* returned <<0, 1>>.
C14_Witness ==
    \E t \in Tasks :
        /\ Ranked(t)
        /\ local[t].query = "rust"
        /\ DOMAIN doc_lengths = {0, 1}
        /\ "rust" \in DOMAIN postings
        /\ postings["rust"].doc_ids = <<0, 1>>
        /\ postings["rust"].term_frequencies = <<1, 2>>
        /\ doc_lengths[0] = 2
        /\ doc_lengths[1] = 2
        /\ local[t].ranked = Some(<<0, 1>>)

\* The sum, over the terms of S, of the term frequency of document d.
RECURSIVE SumTf(_, _, _)
SumTf(ps, d, S) ==
    IF S = {} THEN 0
    ELSE LET term == CHOOSE x \in S : TRUE
         IN (IF HasDoc(ps, term, d) THEN TfOf(ps, term, d) ELSE 0) + SumTf(ps, d, S \ {term})

\* C15: whenever no call is in progress, for every document d the term frequencies of
\* d over all terms add up to the number of tokens passed in all calls for d, which is
\* at least the recorded length of d; for a document ingested exactly once the sum is
\* the recorded length, so each of its term frequencies is at most its length.
C15_FrequenciesSumToTokensPassed ==
    ~InCall =>
        \A d \in DocIDs :
            LET sum == SumTf(postings, d, DOMAIN postings)
            IN /\ sum = passed[d].tokens
               /\ d \in DOMAIN doc_lengths => sum >= doc_lengths[d]
               /\ passed[d].calls = 1 =>
                     /\ d \in DOMAIN doc_lengths
                     /\ sum = doc_lengths[d]
                     /\ \A term \in DOMAIN postings :
                           HasDoc(postings, term, d) => TfOf(postings, term, d) <= doc_lengths[d]

\* C15 happens: document 2 was ingested twice, in all with three tokens "rust" and one
\* "extra"; its recorded length is 2, its sum of frequencies 4, and the frequency of
\* "rust", 3, exceeds the recorded length.
C15_Witness ==
    /\ ~InCall
    /\ passed[2].calls = 2
    /\ passed[2].tokens = 4
    /\ 2 \in DOMAIN doc_lengths
    /\ doc_lengths[2] = 2
    /\ HasDoc(postings, "rust", 2)
    /\ TfOf(postings, "rust", 2) = 3
    /\ SumTf(postings, 2, DOMAIN postings) = 4

=============================================================================
